---- MODULE Spec2Model ----
(***************************************************************************)
(* Model of src/scraper.py: OpenArtScraper.run and the three phases it     *)
(* sequences (scroll_and_collect_urls, download_workflow, merge_json_files)*)
(* together with the browser process that shares the download directory.   *)
(* Strings are modelled as sequences of tokens, so that substring, suffix  *)
(* and glob tests are computed rather than assumed.                        *)
(***************************************************************************)
EXTENDS Integers, Sequences, FiniteSets, TLC

VARIABLES
    pc,                   \* position of the main thread inside run()
    driver,               \* self.driver: "none", "running" or "quit"
    exc,                  \* exception propagating into run()'s handlers
    exc_phase,            \* phase in which that exception was raised
    workflow_urls,        \* self.workflow_urls (a set)
    last_height,          \* local of scroll_and_collect_urls
    no_new_content_count, \* local of scroll_and_collect_urls
    page_height,          \* history: the height the page had at the last read
    still_scrolls,        \* history: scrolls in a row that left the height as it was
    url_list,             \* run()'s local workflow_urls, the returned list
    idx,                  \* enumerate index of run()'s download loop
    downloaded_count,     \* self.downloaded_count
    failed_downloads,     \* self.failed_downloads
    dir,                  \* the download directory: file name -> file
    browser,              \* per item: state of the download a click on it started
    initial_files,        \* local of download_workflow
    elapsed,              \* local of download_workflow
    old_path,             \* local of download_workflow (completed_files[0])
    new_path,             \* local of download_workflow
    fail_reason,          \* the warning/error line of the current call, if any
    json_files,           \* local of merge_json_files
    merge_pos,            \* files of json_files the for loop has handled
    merged_data,          \* local of merge_json_files
    merged_file,          \* content of CONFIG['merged_file'] on disk
    merged_count,         \* run()'s local merged_count
    log,                  \* the "Error reading <file>" lines of the log file
    attempted,            \* history: URLs passed to download_workflow
    merge_runs            \* history: number of calls of merge_json_files

vars == <<pc, driver, exc, exc_phase, workflow_urls, last_height,
          no_new_content_count, page_height, still_scrolls, url_list, idx, downloaded_count,
          failed_downloads, dir, browser, initial_files, elapsed, old_path,
          new_path, fail_reason, json_files, merge_pos, merged_data, merged_file, merged_count, log,
          attempted, merge_runs>>

(***************************************************************************)
(* Bounds of the model.                                                    *)
(***************************************************************************)
MaxItems == 2          \* item pages the gallery can list
TargetCount == 2       \* CONFIG['target_count'], scaled down
MaxHeight == 2         \* distinct values of document.body.scrollHeight
MaxTime == 1           \* distinct values of int(time.time())

(***************************************************************************)
(* Program constants.                                                      *)
(***************************************************************************)
max_no_new_attempts == 5
max_wait == 30
NumSelectors == 6

\* ------------------------------------------------------------ strings ---
EndsWith(s, suffix) ==
    /\ Len(suffix) <= Len(s)
    /\ SubSeq(s, Len(s) - Len(suffix) + 1, Len(s)) = suffix

StartsWith(s, prefix) ==
    /\ Len(prefix) <= Len(s)
    /\ SubSeq(s, 1, Len(prefix)) = prefix

Contains(s, sub) ==
    \E i \in 1..(Len(s) - Len(sub) + 1) : SubSeq(s, i, i + Len(sub) - 1) = sub

Digit == <<"0", "1", "2", "3", "4", "5", "6", "7", "8", "9">>

RECURSIVE IntStr(_)
IntStr(n) ==
    IF n < 10 THEN <<Digit[n + 1]>>
    ELSE IntStr(n \div 10) \o <<Digit[(n % 10) + 1]>>

RECURSIVE Perms(_)
Perms(S) ==
    IF S = {} THEN {<<>>}
    ELSE UNION {{<<x>> \o p : p \in Perms(S \ {x})} : x \in S}

Range(s) == {s[i] : i \in 1..Len(s)}

\* --------------------------------------------------------------- URLs ---
base_url == <<"https://openart.ai", "/", "workflows", "/", "all">>

ItemUrl(i) == <<"https://openart.ai", "/", "workflows", "/", "item">> \o IntStr(i)

ItemUrls == {ItemUrl(i) : i \in 1..MaxItems}

\* the item a collected URL points at
ItemOf(url) == CHOOSE i \in 1..MaxItems : ItemUrl(i) = url

\* hrefs the listing page may carry: items, the listing itself, the listing
\* on another host, a link outside /workflows/, and an anchor without href
\* (get_attribute returns None)
NoHref == <<>>
Hrefs ==
    ItemUrls \cup
    { base_url,
      <<"https://mirror.example", "/", "workflows", "/", "all">>,
      <<"https://openart.ai", "/", "about">>,
      NoHref }

\* mutant: the listing page's own URL is not filtered out
Qualifies_NoListingFilter(url, collected) ==
    /\ url # NoHref
    /\ Contains(url, <<"/", "workflows", "/">>)
    /\ url \notin collected

Qualifies(url, collected) ==
    /\ url # NoHref
    /\ Contains(url, <<"/", "workflows", "/">>)
    /\ url \notin collected
    /\ url # base_url
    /\ ~EndsWith(url, <<"/", "workflows", "/", "all">>)

\* the for loop over the elements found, applied to a set of hrefs
ScrapeInto(collected, hrefs) ==
    collected \cup {u \in hrefs : Qualifies(u, collected)}

Heights == 1..MaxHeight

\* -------------------------------------------------- files and names ---
Times == 1..MaxTime

WorkflowName(index) == <<"workflow_">> \o IntStr(index) \o <<".json">>

StampedName(index, t) ==
    <<"workflow_">> \o IntStr(index) \o <<"_">> \o IntStr(t) \o <<".json">>

\* the name the server gives the download of item i
DownloadName(i) == <<"openart_">> \o IntStr(i) \o <<".json">>

PartialMarkers == {".crdownload", ".tmp"}

PartialName(i, marker) == DownloadName(i) \o <<marker>>

IsPartial(f) == EndsWith(f, <<".crdownload">>) \/ EndsWith(f, <<".tmp">>)

\* file contents, and json.load on them
Payload1 == "{\"a\": 1}"
Payload2 == "{\"a\": 2}"
Corrupt == "{\"a\": "
\* the document the gallery serves for item i: sound for the odd items,
\* truncated for the even ones
ServedContent(i) == IF i % 2 = 1 THEN Payload1 ELSE Corrupt

JsonLoad(text) ==
    CASE text = Payload1 -> [ok |-> TRUE, value |-> [a |-> 1]]
      [] text = Payload2 -> [ok |-> TRUE, value |-> [a |-> 2]]
      [] OTHER -> [ok |-> FALSE, value |-> [a |-> 0]]

\* a file: the item whose download produced it (0: it was there before
\* the run) and its content
File(origin, content) == [origin |-> origin, content |-> content]

\* what earlier runs may have left in the download folder: nothing,
\* workflow_1.json, or workflow_1.json and the stamped file a later
\* collision with it produced
PreDirs ==
    { {}, {WorkflowName(1)}, {WorkflowName(1), StampedName(1, 1)} }

InitDirs == {[n \in names |-> File(0, Payload2)] : names \in PreDirs}

NoPath == <<>>
NoFile == [written |-> FALSE, doc |-> <<>>]

\* ------------------------------------------------ download_workflow ---
Selectors == 1..NumSelectors

\* the for loop over the selectors: the first one that matches, 0 for None
FirstMatch(matching) ==
    IF matching = {} THEN 0
    ELSE CHOOSE s \in matching : \A o \in matching : s <= o

\* mutant: partial-download markers are not filtered out
CompletedFiles_AnyNew(current_files, initial) == current_files \ initial

CompletedFiles(current_files, initial) ==
    {f \in current_files \ initial : ~IsPartial(f)}

DestPath(index, existing, t) ==
    IF WorkflowName(index) \in existing
    THEN StampedName(index, t)
    ELSE WorkflowName(index)

\* os.rename: the destination is replaced when it exists
Rename(d, old, new) ==
    [n \in (DOMAIN d \ {old}) \cup {new} |-> IF n = new THEN d[old] ELSE d[n]]

\* ------------------------------------------------- merge_json_files ---
GlobMatches(f) ==
    /\ Len(f) >= 2
    /\ StartsWith(f, <<"workflow_">>)
    /\ EndsWith(f, <<".json">>)

Glob(d) == {f \in DOMAIN d : GlobMatches(f)}

Entry(name, data) == [filename |-> name, workflow |-> data]

\* ------------------------------------------------------------- state ---
Init ==
    /\ pc = "start"
    /\ driver = "none"
    /\ exc = "none"
    /\ exc_phase = "none"
    /\ workflow_urls = {}
    /\ last_height = 0
    /\ no_new_content_count = 0
    /\ page_height = 0
    /\ still_scrolls = 0
    /\ url_list = <<>>
    /\ idx = 0
    /\ downloaded_count = 0
    /\ failed_downloads = <<>>
    /\ dir \in InitDirs
    /\ browser = [i \in 1..MaxItems |-> "idle"]
    /\ initial_files = {}
    /\ elapsed = 0
    /\ old_path = NoPath
    /\ new_path = NoPath
    /\ fail_reason = "none"
    /\ json_files = <<>>
    /\ merge_pos = 0
    /\ merged_data = <<>>
    /\ merged_file = NoFile
    /\ merged_count = 0
    /\ log = {}
    /\ attempted = <<>>
    /\ merge_runs = 0

collectVars == <<workflow_urls, last_height, no_new_content_count, page_height,
                 still_scrolls, url_list>>
loopVars == <<idx, downloaded_count, failed_downloads, attempted>>
dlLocals == <<initial_files, elapsed, old_path, new_path, fail_reason>>
mergeVars == <<json_files, merge_pos, merged_data, merged_file, merged_count, merge_runs>>
excVars == <<exc, exc_phase>>

Phase(p) ==
    CASE p = "start" -> "setup"
      [] p \in {"collect_open", "collect_loop", "collect_scroll", "collect_return"} -> "collect"
      [] p \in {"loop", "dl_get", "dl_snapshot", "dl_click", "dl_poll", "dl_rename"} -> "download"
      [] p \in {"merge_glob", "merge_read"} -> "merge"
      [] p = "summary" -> "summary"
      [] OTHER -> "none"

\* the positions inside the try block of run()
TryBlock ==
    {"start", "collect_open", "collect_loop", "collect_scroll", "collect_return",
     "loop", "dl_get", "dl_snapshot", "dl_click", "dl_poll", "dl_rename",
     "merge_glob", "merge_read", "summary"}

\* an exception leaves the try block of run()
Raise(kind) ==
    /\ pc' = "except"
    /\ exc' = kind
    /\ exc_phase' = Phase(pc)

\* ------------------------------------------------------ setup_driver ---
\* webdriver.Chrome() may fail before self.driver is assigned, and
\* set_page_load_timeout may fail after it
SetupDriver ==
    /\ pc = "start"
    /\ \/ /\ driver' = "running"
          /\ pc' = "collect_open"
          /\ UNCHANGED excVars
       \/ /\ driver' \in {"none", "running"}
          /\ Raise("Exception")
    /\ UNCHANGED <<collectVars, loopVars, dir, browser, dlLocals, mergeVars, log>>

\* ------------------------------------------- scroll_and_collect_urls ---
\* driver.get(base_url) and the first read of scrollHeight
CollectOpen ==
    /\ pc = "collect_open"
    /\ \/ \E h \in Heights :
            /\ last_height' = h
            /\ page_height' = h
            /\ still_scrolls' = 0
            /\ no_new_content_count' = 0
            /\ pc' = "collect_loop"
            /\ UNCHANGED excVars
       \/ /\ Raise("Exception")
          /\ UNCHANGED <<last_height, page_height, still_scrolls, no_new_content_count>>
    /\ UNCHANGED <<driver, workflow_urls, url_list, loopVars, dir, browser,
                   dlLocals, mergeVars, log>>

\* the while condition fails: the target count is reached
CollectLoopExit ==
    /\ pc = "collect_loop"
    /\ ~(Cardinality(workflow_urls) < TargetCount)
    /\ pc' = "collect_return"
    /\ UNCHANGED <<driver, excVars, collectVars, loopVars, dir, browser,
                   dlLocals, mergeVars, log>>

\* the try block of one iteration: find_elements and the loop over the
\* elements (a stale element is skipped; an error of find_elements is logged)
CollectScrape ==
    /\ pc = "collect_loop"
    /\ Cardinality(workflow_urls) < TargetCount
    /\ \/ \E hrefs \in SUBSET Hrefs :
             workflow_urls' = ScrapeInto(workflow_urls, hrefs)
       \/ workflow_urls' = workflow_urls
    /\ pc' = "collect_scroll"
    /\ UNCHANGED <<driver, excVars, last_height, no_new_content_count, page_height,
                   still_scrolls, url_list, loopVars, dir, browser, dlLocals, mergeVars, log>>

\* mutant: a scroll that changes the height does not reset the counter
CountAfter_NoReset(count, last, new_height) ==
    IF new_height = last THEN count + 1 ELSE count

\* the value of no_new_content_count after a scroll that read new_height
CountAfter(count, last, new_height) ==
    IF new_height = last THEN count + 1 ELSE 0

\* scroll to the bottom, read the new height, count or reset
CollectScroll ==
    /\ pc = "collect_scroll"
    /\ \/ \E new_height \in Heights :
            /\ no_new_content_count' =
                   CountAfter(no_new_content_count, last_height, new_height)
            /\ last_height' = new_height
            /\ page_height' = new_height
            /\ still_scrolls' = IF new_height = page_height THEN still_scrolls + 1 ELSE 0
            /\ pc' = IF /\ new_height = last_height
                        /\ no_new_content_count' >= max_no_new_attempts
                     THEN "collect_return"
                     ELSE "collect_loop"
            /\ UNCHANGED excVars
       \/ /\ Raise("Exception")
          /\ UNCHANGED <<last_height, page_height, still_scrolls, no_new_content_count>>
    /\ UNCHANGED <<driver, workflow_urls, url_list, loopVars, dir, browser,
                   dlLocals, mergeVars, log>>

\* return list(self.workflow_urls): the set in some order; the locals die
CollectReturn ==
    /\ pc = "collect_return"
    /\ url_list' \in Perms(workflow_urls)
    /\ last_height' = 0
    /\ no_new_content_count' = 0
    /\ page_height' = 0
    /\ still_scrolls' = 0
    /\ pc' = "loop"
    /\ UNCHANGED <<driver, excVars, workflow_urls, loopVars, dir, browser,
                   dlLocals, mergeVars, log>>

\* ------------------------------------------------------ the browser ---
\* the browser process starts writing the download a click asked for
BrowserBegin(i) ==
    /\ driver = "running"
    /\ browser[i] = "requested"
    /\ \E marker \in PartialMarkers :
          dir' = (PartialName(i, marker) :> File(i, Corrupt)) @@ dir
    /\ browser' = [browser EXCEPT ![i] = "partial"]
    /\ UNCHANGED <<pc, driver, excVars, collectVars, loopVars, dlLocals,
                   mergeVars, log>>

\* the download completes: the partial file is renamed to its final name
BrowserFinish(i) ==
    /\ driver = "running"
    /\ browser[i] = "partial"
    /\ LET partial == CHOOSE n \in DOMAIN dir : dir[n].origin = i /\ IsPartial(n)
       IN  dir' = (DownloadName(i) :> File(i, ServedContent(i))) @@
                  [n \in DOMAIN dir \ {partial} |-> dir[n]]
    /\ browser' = [browser EXCEPT ![i] = "done"]
    /\ UNCHANGED <<pc, driver, excVars, collectVars, loopVars, dlLocals,
                   mergeVars, log>>

\* ------------------------------------------------- download_workflow ---
\* mutant: the loop stops one URL short
LoopNext_StopsEarly ==
    /\ pc = "loop"
    /\ IF idx + 1 < Len(url_list)
       THEN /\ idx' = idx + 1
            /\ attempted' = Append(attempted, url_list[idx + 1])
            /\ pc' = "dl_get"
       ELSE /\ pc' = "merge_glob"
            /\ UNCHANGED <<idx, attempted>>
    /\ new_path' = NoPath
    /\ fail_reason' = "none"
    /\ UNCHANGED <<driver, excVars, collectVars, downloaded_count,
                   failed_downloads, dir, browser, initial_files, elapsed,
                   old_path, mergeVars, log>>

\* for idx, url in enumerate(workflow_urls, 1): one more call, or the loop ends
LoopNext ==
    /\ pc = "loop"
    /\ IF idx < Len(url_list)
       THEN /\ idx' = idx + 1
            /\ attempted' = Append(attempted, url_list[idx + 1])
            /\ pc' = "dl_get"
       ELSE /\ pc' = "merge_glob"
            /\ UNCHANGED <<idx, attempted>>
    /\ new_path' = NoPath
    /\ fail_reason' = "none"
    /\ UNCHANGED <<driver, excVars, collectVars, downloaded_count,
                   failed_downloads, dir, browser, initial_files, elapsed,
                   old_path, mergeVars, log>>

\* mutant: the error of an item propagates into run()
Fail_Raises(why) ==
    /\ pc' = "except"
    /\ exc' = "Exception"
    /\ exc_phase' = "download"
    /\ UNCHANGED <<driver, collectVars, loopVars, dlLocals, mergeVars, log>>

\* mutant: a failure is logged but its URL is not recorded
Fail_Forgets(why) ==
    /\ fail_reason' = why
    /\ pc' = "loop"
    /\ initial_files' = {}
    /\ elapsed' = 0
    /\ old_path' = NoPath
    /\ UNCHANGED <<driver, excVars, collectVars, loopVars, new_path, mergeVars, log>>

\* every failing path of download_workflow: log, record the URL, return False
Fail(why) ==
    /\ failed_downloads' = Append(failed_downloads, url_list[idx])
    /\ fail_reason' = why
    /\ pc' = "loop"
    /\ initial_files' = {}
    /\ elapsed' = 0
    /\ old_path' = NoPath
    /\ UNCHANGED <<driver, excVars, collectVars, idx, downloaded_count, attempted,
                   new_path, mergeVars, log>>

\* driver.get, the wait for <body>, and the search for the download button
DownloadNavigate ==
    /\ pc = "dl_get"
    /\ \/ Fail("Page load timeout")
       \/ Fail("Error downloading workflow")
       \/ \E matching \in SUBSET Selectors :
            IF FirstMatch(matching) = 0
            THEN Fail("Download button not found")
            ELSE /\ pc' = "dl_snapshot"
                 /\ UNCHANGED <<driver, excVars, collectVars, loopVars, dlLocals,
                                mergeVars, log>>
    /\ UNCHANGED <<dir, browser>>

\* initial_files = set(os.listdir(download_folder))
DownloadSnapshot ==
    /\ pc = "dl_snapshot"
    /\ initial_files' = DOMAIN dir
    /\ pc' = "dl_click"
    /\ UNCHANGED <<driver, excVars, collectVars, loopVars, dir, browser, elapsed,
                   old_path, new_path, fail_reason, mergeVars, log>>

\* the browser after a click on item i's download control started a download
ClickStarts(b, i) == IF b[i] = "idle" THEN [b EXCEPT ![i] = "requested"] ELSE b

\* download_button.click(): it raises, does nothing, or starts a download
DownloadClick ==
    /\ pc = "dl_click"
    /\ \/ /\ Fail("Error downloading workflow")
          /\ UNCHANGED browser
       \/ /\ browser' \in {browser, ClickStarts(browser, ItemOf(url_list[idx]))}
          /\ elapsed' = 0
          /\ pc' = "dl_poll"
          /\ UNCHANGED <<driver, excVars, collectVars, loopVars, initial_files,
                         old_path, new_path, fail_reason, mergeVars, log>>
    /\ UNCHANGED dir

\* one turn of the polling loop, or its exhaustion
DownloadPoll ==
    /\ pc = "dl_poll"
    /\ \/ /\ elapsed < max_wait
          /\ LET completed_files == CompletedFiles(DOMAIN dir, initial_files)
             IN  IF completed_files # {}
                 THEN /\ old_path' \in completed_files
                      /\ pc' = "dl_rename"
                      /\ UNCHANGED elapsed
                 ELSE /\ elapsed' = elapsed + 1
                      /\ UNCHANGED <<pc, old_path>>
          /\ UNCHANGED <<driver, excVars, collectVars, loopVars, initial_files,
                         new_path, fail_reason, mergeVars, log>>
       \/ /\ ~(elapsed < max_wait)
          /\ Fail("Download timeout")
    /\ UNCHANGED <<dir, browser>>

\* the choice of new_path and os.rename(old_path, new_path); where the
\* destination exists the rename replaces it or raises, by platform
DownloadRename ==
    /\ pc = "dl_rename"
    /\ \E t \in Times :
         LET dest == DestPath(idx, DOMAIN dir, t)
         IN  \/ /\ new_path' = dest
                /\ dir' = Rename(dir, old_path, dest)
                /\ downloaded_count' = downloaded_count + 1
                /\ pc' = "loop"
                /\ initial_files' = {}
                /\ elapsed' = 0
                /\ old_path' = NoPath
                /\ UNCHANGED <<driver, excVars, collectVars, idx, failed_downloads,
                               attempted, fail_reason, mergeVars, log>>
             \/ /\ dest \in DOMAIN dir
                /\ new_path' = dest
                /\ failed_downloads' = Append(failed_downloads, url_list[idx])
                /\ fail_reason' = "Error downloading workflow"
                /\ pc' = "loop"
                /\ initial_files' = {}
                /\ elapsed' = 0
                /\ old_path' = NoPath
                /\ UNCHANGED <<driver, excVars, collectVars, idx, downloaded_count,
                               attempted, dir, mergeVars, log>>
    /\ UNCHANGED browser

\* -------------------------------------------------- merge_json_files ---
\* json_files = list(download_folder.glob("workflow_*.json")), in the order
\* the file system enumerates them
MergeGlob ==
    /\ pc = "merge_glob"
    /\ json_files' \in Perms(Glob(dir))
    /\ merge_pos' = 0
    /\ merged_data' = <<>>
    /\ merge_runs' = merge_runs + 1
    /\ pc' = "merge_read"
    /\ UNCHANGED <<driver, excVars, collectVars, loopVars, dir, browser, dlLocals,
                   merged_file, merged_count, log>>

\* mutant: a file that does not parse is given an entry all the same
MergedAfter_KeepsUnparsed(data, json_file, d) ==
    Append(data, Entry(json_file, JsonLoad(d[json_file].content).value))

\* merged_data after the loop body has handled json_file
MergedAfter(data, json_file, d) ==
    IF json_file \in DOMAIN d /\ JsonLoad(d[json_file].content).ok
    THEN Append(data, Entry(json_file, JsonLoad(d[json_file].content).value))
    ELSE data

\* the log after the loop body has handled json_file
LogAfter(lines, json_file, d) ==
    IF json_file \in DOMAIN d /\ JsonLoad(d[json_file].content).ok
    THEN lines
    ELSE lines \cup {<<"Error reading", json_file>>}

\* one iteration of the for loop: open, json.load, append or log
MergeRead ==
    /\ pc = "merge_read"
    /\ merge_pos < Len(json_files)
    /\ merged_data' = MergedAfter(merged_data, json_files[merge_pos + 1], dir)
    /\ log' = LogAfter(log, json_files[merge_pos + 1], dir)
    /\ merge_pos' = merge_pos + 1
    /\ UNCHANGED <<pc, driver, excVars, collectVars, loopVars, dir, browser,
                   dlLocals, json_files, merged_file, merged_count, merge_runs>>

\* json.dump(merged_data) into merged_file and return len(merged_data);
\* opening the destination may raise, which nothing in the function catches
MergeWrite ==
    /\ pc = "merge_read"
    /\ merge_pos = Len(json_files)
    /\ \/ /\ merged_file' = [written |-> TRUE, doc |-> merged_data]
          /\ merged_count' = Len(merged_data)
          /\ pc' = "summary"
          /\ UNCHANGED excVars
       \/ /\ Raise("Exception")
          /\ UNCHANGED <<merged_file, merged_count>>
    /\ UNCHANGED <<driver, collectVars, loopVars, dir, browser, dlLocals,
                   json_files, merge_pos, merged_data, merge_runs, log>>

\* ----------------------------------------------------------------- run ---
\* the final summary: log lines only
Summary ==
    /\ pc = "summary"
    /\ pc' = "finally"
    /\ UNCHANGED <<driver, excVars, collectVars, loopVars, dir, browser, dlLocals,
                   mergeVars, log>>

\* the locals of the functions an exception unwinds are gone
Unwind ==
    /\ last_height' = 0
    /\ no_new_content_count' = 0
    /\ page_height' = 0
    /\ still_scrolls' = 0
    /\ url_list' = <<>>
    /\ idx' = 0
    /\ initial_files' = {}
    /\ elapsed' = 0
    /\ old_path' = NoPath
    /\ new_path' = NoPath
    /\ fail_reason' = "none"
    /\ json_files' = <<>>
    /\ merge_pos' = 0
    /\ merged_data' = <<>>

\* Ctrl-C while the try block of run() executes
Interrupt ==
    /\ pc \in TryBlock
    /\ Raise("KeyboardInterrupt")
    /\ Unwind
    /\ UNCHANGED <<driver, workflow_urls, downloaded_count, failed_downloads,
                   attempted, dir, browser, merged_file, merged_count, merge_runs,
                   log>>

\* except KeyboardInterrupt / except Exception: a log line
RunExcept ==
    /\ pc = "except"
    /\ pc' = "finally"
    /\ Unwind
    /\ UNCHANGED <<driver, excVars, workflow_urls, downloaded_count,
                   failed_downloads, attempted, dir, browser, merged_file,
                   merged_count, merge_runs, log>>

\* mutant: the finally block does not quit the driver
DriverAfterFinally_NoQuit(d) == d

\* the driver after the finally block
DriverAfterFinally(d) == IF d = "running" THEN "quit" ELSE d

\* finally: if self.driver: self.driver.quit()
RunFinally ==
    /\ pc = "finally"
    /\ driver' = DriverAfterFinally(driver)
    /\ pc' = "exited"
    /\ UNCHANGED <<excVars, collectVars, loopVars, dir, browser, dlLocals,
                   mergeVars, log>>

Main ==
    \/ SetupDriver
    \/ CollectOpen
    \/ CollectLoopExit
    \/ CollectScrape
    \/ CollectScroll
    \/ CollectReturn
    \/ LoopNext
    \/ DownloadNavigate
    \/ DownloadSnapshot
    \/ DownloadClick
    \/ DownloadPoll
    \/ DownloadRename
    \/ MergeGlob
    \/ MergeRead
    \/ MergeWrite
    \/ Summary
    \/ RunExcept
    \/ RunFinally

Browser == \E i \in 1..MaxItems : BrowserBegin(i) \/ BrowserFinish(i)

Next == Main \/ Browser \/ Interrupt

Spec == Init /\ [][Next]_vars

\* the main thread keeps running: every wait in it is bounded
FairSpec == Spec /\ WF_vars(Main)

\* ================================================================ claims

NoDuplicates(s) == \A i, j \in 1..Len(s) : i # j => s[i] # s[j]

IsListing(url) == url = base_url \/ EndsWith(url, <<"/", "workflows", "/", "all">>)

CollectPcs == {"collect_open", "collect_loop", "collect_scroll", "collect_return"}
CallPcs == {"dl_get", "dl_snapshot", "dl_click", "dl_poll", "dl_rename"}

\* C1: the collected set, and the list returned from it, hold no URL twice
\* and never the listing page's own URL (base_url, or a URL ending in
\* /workflows/all); the list returned holds exactly the collected set.
C1_NoDuplicatesNoListing ==
    /\ \A u \in workflow_urls : ~IsListing(u)
    /\ NoDuplicates(url_list)
    /\ \A i \in 1..Len(url_list) : ~IsListing(url_list[i])
    /\ pc \in {"loop"} \cup CallPcs => Range(url_list) = workflow_urls

\* C1 witness: collection has returned a list of two item URLs.
C1_Witness ==
    /\ pc = "loop"
    /\ Len(url_list) = 2
    /\ Range(url_list) = workflow_urls

\* C2: the loop never starts an iteration once max_no_new_attempts scrolls in
\* a row left the height unchanged; the counter is the number of such
\* scrolls in a row (a scroll that changes the height resets it to 0); and
\* the loop is left, short of an exception, only by that or with the target
\* count reached.
C2_HaltsOnStagnation ==
    /\ pc = "collect_loop" => no_new_content_count < max_no_new_attempts
    /\ pc \in CollectPcs => no_new_content_count = still_scrolls
    /\ pc = "collect_return" =>
          \/ still_scrolls = max_no_new_attempts
          \/ Cardinality(workflow_urls) >= TargetCount

\* C2 witness: the loop was left by stagnation with the target unmet.
C2_Witness ==
    /\ pc = "collect_return"
    /\ still_scrolls = max_no_new_attempts
    /\ Cardinality(workflow_urls) < TargetCount

OnlyPartialNew == \A f \in DOMAIN dir \ initial_files : IsPartial(f)

\* what C3 asks of one step
PollStepOk ==
    /\ pc' = "dl_rename" =>
          /\ old_path' \in DOMAIN dir'
          /\ old_path' \notin initial_files'
          /\ ~IsPartial(old_path')
    /\ (pc = "dl_poll" /\ OnlyPartialNew) =>
          /\ pc' # "dl_rename"
          /\ downloaded_count' = downloaded_count
          /\ Glob(dir') = Glob(dir)
          /\ elapsed < max_wait => pc' \in {"dl_poll", "except"}
          /\ pc' = "dl_poll" => elapsed' \in {elapsed, elapsed + 1}

\* C3: the file picked as completed is in the directory, is not in the
\* pre-click snapshot and is no partial-download marker; a poll that finds
\* only partial markers among the new files renames nothing and polls on.
C3_PicksCompletedNewFile == [][PollStepOk]_vars

\* C3 witness: a completed file was picked while a partial-download marker
\* was among the new files.
C3_Witness ==
    /\ pc = "dl_rename"
    /\ \E f \in DOMAIN dir \ initial_files : IsPartial(f)

\* C4 (as claimed): when workflow_<index>.json exists, the destination the
\* rename uses does not exist, so no file is replaced.
C4_RenameNeverOverwrites ==
    [][ (pc = "dl_rename" /\ downloaded_count' = downloaded_count + 1)
            => new_path' \notin DOMAIN dir ]_vars

ParsedFiles(d) == {f \in Glob(d) : JsonLoad(d[f].content).ok}

\* C5: the document written holds exactly one entry per workflow_*.json
\* file that parses, with that file's name and parsed payload, and nothing
\* else; each file that does not parse is logged; the count returned is the
\* number of entries.
C5_MergeOneEntryPerParsedFile ==
    merged_file.written =>
        /\ Len(merged_file.doc) = Cardinality(ParsedFiles(dir))
        /\ Range(merged_file.doc) =
              {Entry(f, JsonLoad(dir[f].content).value) : f \in ParsedFiles(dir)}
        /\ \A f \in Glob(dir) \ ParsedFiles(dir) : <<"Error reading", f>> \in log
        /\ \A f \in ParsedFiles(dir) : <<"Error reading", f>> \notin log
        /\ merged_count = Len(merged_file.doc)

\* C5 witness: workflow_1.json parses and workflow_2.json does not; the
\* document holds the one entry and the error is logged.
C5_Witness ==
    /\ merged_file.written
    /\ Glob(dir) = {WorkflowName(1), WorkflowName(2)}
    /\ merged_file.doc = <<Entry(WorkflowName(1), [a |-> 1])>>
    /\ log = {<<"Error reading", WorkflowName(2)>>}

\* C6 (as claimed): every execution that launched a browser reaches a state
\* where it has been quit.
C6_LaunchedLeadsToQuit == (driver = "running") ~> (driver = "quit")

\* C6 (amended): run() is never left with the browser still running,
\* whether it completes, is interrupted or meets an unexpected exception;
\* an exception leads nowhere but to the handlers and the cleanup; and short
\* of its exit the main thread always has a step to take.
C6_QuitOnEveryExit ==
    /\ pc = "exited" => driver # "running"
    /\ exc # "none" => pc \in {"except", "finally", "exited"}
    /\ pc = "except" => exc # "none"
    /\ pc # "exited" => ENABLED Main

\* beyond the collection loop, a launched browser is quit in the end
PastCollectionLeadsToQuit ==
    (driver = "running" /\ pc \notin CollectPcs) ~> (driver = "quit")

\* C6 witness: run() was interrupted with the browser launched, and has quit it.
C6_Witness ==
    /\ pc = "exited"
    /\ exc = "KeyboardInterrupt"
    /\ driver = "quit"

\* what C7 asks of one step taken inside a call of download_workflow
CallStepOk ==
    pc \in CallPcs =>
        /\ (pc' \in CallPcs \cup {"loop"}) \/ (exc' = "KeyboardInterrupt")
        /\ (pc' = "loop" /\ downloaded_count' = downloaded_count) =>
              /\ failed_downloads' = Append(failed_downloads, url_list[idx])
              /\ fail_reason' # "none"
              /\ idx' = idx

\* C7: a call of download_workflow that does not succeed appends its URL to
\* failed_downloads and returns to the loop; no error of an item reaches
\* run()'s handlers; the merge starts with every URL attempted.
C7_ItemFailureNeverAborts ==
    /\ [][CallStepOk]_vars
    /\ [](exc = "Exception" => exc_phase # "download")
    /\ [](pc = "merge_glob" => attempted = url_list)

\* C7 witness: the first of two items failed, the second was downloaded, and
\* the merge phase is reached.
C7_Witness ==
    /\ pc = "merge_glob"
    /\ Len(url_list) = 2
    /\ failed_downloads = <<url_list[1]>>
    /\ downloaded_count = 1

\* C8: nothing is downloaded before collection returned, the merge starts
\* only once every collected URL was attempted, and it runs once; a run that
\* reaches the summary has merged exactly once, also with no URL collected.
C8_PhaseOrder ==
    /\ pc \in {"start"} \cup CollectPcs => (attempted = <<>> /\ merge_runs = 0)
    /\ pc \in {"loop"} \cup CallPcs => merge_runs = 0
    /\ merge_runs <= 1
    /\ merge_runs = 1 =>
          /\ Range(attempted) = workflow_urls
          /\ Len(attempted) = Cardinality(workflow_urls)
    /\ pc \in {"merge_read", "summary"} => merge_runs = 1
    /\ merged_file.written => merge_runs = 1

\* C8 witness: no URL was collected, no download was attempted, and the
\* merge ran and wrote its (empty) document.
C8_Witness ==
    /\ pc = "summary"
    /\ workflow_urls = {}
    /\ attempted = <<>>
    /\ merge_runs = 1
    /\ merged_file = [written |-> TRUE, doc |-> <<>>]

\* C9: every URL is passed to download_workflow at most once, in list order;
\* each finished call counted once, as a download or as a failure; no URL is
\* twice in failed_downloads.
C9_EveryAttemptCountedOnce ==
    /\ NoDuplicates(attempted)
    /\ NoDuplicates(failed_downloads)
    /\ Range(failed_downloads) \subseteq Range(attempted)
    /\ pc \in {"loop"} \cup CallPcs =>
          /\ Len(attempted) = idx
          /\ attempted = SubSeq(url_list, 1, idx)
    /\ pc \in CallPcs => downloaded_count + Len(failed_downloads) = idx - 1
    /\ pc = "loop" => downloaded_count + Len(failed_downloads) = idx
    /\ pc \in {"merge_glob", "merge_read", "summary"} =>
          /\ downloaded_count + Len(failed_downloads) = Len(attempted)
          /\ Range(attempted) = workflow_urls

\* C9 witness: two attempts are over, one a download and one a failure.
C9_Witness ==
    /\ pc = "loop"
    /\ idx = 2
    /\ downloaded_count = 1
    /\ Len(failed_downloads) = 1

\* the names download_workflow gives the file of the index-th URL
IndexNames(index) == {WorkflowName(index)} \cup {StampedName(index, t) : t \in Times}

\* C10 (as claimed): a file this run renamed under index k is the download
\* of the item the k-th URL points at.
C10_RenamedFileIsOwnDownload ==
    \A k \in 1..Len(attempted) : \A n \in IndexNames(k) \cap DOMAIN dir :
        dir[n].origin # 0 => ItemUrl(dir[n].origin) = attempted[k]

====
